---- MODULE Spec2Model ----
(***************************************************************************)
(* A model of csi_train_service: the Express server of the train delay     *)
(* protection (src/unnamed/part_000, the repository's server.js), its      *)
(* validator (src/validator.js) and its Telegram module                    *)
(* (src/unnamed/part_001).                                                 *)
(*                                                                         *)
(* Representation of JavaScript values                                     *)
(*  - a string is a sequence of symbols; the symbol ";" is the character   *)
(*    the decoder splits on, every other symbol is a run of characters     *)
(*    without ";" ("ICE 123", "12:00", "2030-01-06");                      *)
(*  - a missing property (undefined) is the one-symbol sequence Undefined; *)
(*  - a number is a record [nan, v]: NaN, or the integer v;                *)
(*  - an object keyed by 'leg_<k>' is a sequence of entries [key, leg] in  *)
(*    insertion order (the order Object.keys, for..in and JSON.stringify   *)
(*    follow), key k standing for the property name 'leg_k'.               *)
(***************************************************************************)
EXTENDS Integers, Sequences, FiniteSets, TLC

VARIABLES
  now,       \* Date.now(), in ms since the model's epoch (2030-01-01T00:00Z)
  cache,     \* the LRU cache of part_000:71, most recently used first
  cachedNow, \* the cache's last reading of the clock, 0 before the first
  reqs,      \* the requests: each one's body, position in its handler, response
  fetches,   \* the outbound calls issued so far, in order
  menu,      \* the requests clients send in this run: endpoints and bodies
  proc,      \* the Node process: what it does on an unhandled rejection, and
             \* whether it is still running
  callFn,    \* harness of the pure functions: the function applied
  callArg,   \* its arguments
  callOut    \* its result (NoResult before the call)

mainVars == <<now, cache, cachedNow, reqs, fetches, menu, proc>>
pureVars == <<callFn, callArg, callOut>>
vars == <<now, cache, cachedNow, reqs, fetches, menu, proc, callFn, callArg, callOut>>

(***************************************************************************)
(* The two halves of the state at rest                                     *)
(***************************************************************************)
NotCalled == [done |-> FALSE, val |-> <<>>]

Called(x) == [done |-> TRUE, val |-> x]

\* the requests, the cache and the clock at rest
MainIdle ==
  /\ now = 0
  /\ cache = <<>>
  /\ cachedNow = 0
  /\ reqs = <<>>
  /\ fetches = <<>>
  /\ menu = [requests |-> {}, predictions |-> {}, observations |-> {}, instants |-> {},
             clients |-> 0, deliveries |-> {}, rejections |-> {}]
  /\ proc = [onRejection |-> "warn", up |-> TRUE]

PureIdle ==
  /\ callFn = "none"
  /\ callArg = <<>>
  /\ callOut = NotCalled

(***************************************************************************)
(* JavaScript numbers and strings                                          *)
(***************************************************************************)
NaN == [nan |-> TRUE, v |-> 0]

Num(n) == [nan |-> FALSE, v |-> n]

\* a < b, a <= b, a > b, a >= b of JavaScript: false when either side is NaN
JsLt(a, b) == ~a.nan /\ ~b.nan /\ a.v < b.v

JsLe(a, b) == ~a.nan /\ ~b.nan /\ a.v <= b.v

JsGt(a, b) == ~a.nan /\ ~b.nan /\ a.v > b.v

JsGe(a, b) == ~a.nan /\ ~b.nan /\ a.v >= b.v

JsSub(a, b) == IF a.nan \/ b.nan THEN NaN ELSE Num(a.v - b.v)

JsAdd(a, b) == IF a.nan \/ b.nan THEN NaN ELSE Num(a.v + b.v)

Undefined == <<"#undefined">>

SEP == ";"

\* the positions of the separator in a string
SepPositions(s) == {i \in 1..Len(s) : s[i] = SEP}

\* String.prototype.split(';'): the pieces between the separators, in order;
\* a string without separator (the empty one included) is its own single piece
RECURSIVE split(_)
split(s) ==
  IF SepPositions(s) = {} THEN <<s>>
  ELSE LET i == CHOOSE p \in SepPositions(s) : \A q \in SepPositions(s) : p <= q
       IN  <<SubSeq(s, 1, i - 1)>> \o split(SubSeq(s, i + 1, Len(s)))

(***************************************************************************)
(* decode (part_000:339-373)                                               *)
(***************************************************************************)
LEG_VALUES == 7

MkLeg(train, start_stop, start_time, start_date, arrival_stop, arrival_time, arrival_date) ==
  [train |-> train, start_stop |-> start_stop, start_time |-> start_time,
   start_date |-> start_date, arrival_stop |-> arrival_stop,
   arrival_time |-> arrival_time, arrival_date |-> arrival_date]

\* the mutant of legAt: start_stop and arrival_stop read from each other's slot
legAt_swapped(values, i) ==
  LET j == i * LEG_VALUES
  IN  MkLeg(values[j + 1], values[j + 5], values[j + 3], values[j + 4],
            values[j + 2], values[j + 6], values[j + 7])

\* the object literal of part_000:353-361; values is 1-based here, so the
\* code's values[j + f] is values[j + f + 1]
legAt(values, i) ==
  LET j == i * LEG_VALUES
  IN  MkLeg(values[j + 1], values[j + 2], values[j + 3], values[j + 4],
            values[j + 5], values[j + 6], values[j + 7])

\* the mutant of decode: the legs numbered from 0, as the loop counts them
decode_keysFromZero(_encoded) ==
  LET values == split(_encoded)
  IN  IF Len(values) % LEG_VALUES # 0 THEN <<>>
      ELSE LET amountLegs == Len(values) \div LEG_VALUES
           IN  [i \in 1..amountLegs |-> [key |-> i - 1, leg |-> legAt(values, i - 1)]]

decode(_encoded) ==
  LET values == split(_encoded)
  IN  IF Len(values) % LEG_VALUES # 0 THEN <<>>
      ELSE LET amountLegs == Len(values) \div LEG_VALUES
               legs == [i \in 1..amountLegs |-> legAt(values, i - 1)]
           IN  [i \in 1..amountLegs |-> [key |-> i, leg |-> legs[i]]]

(***************************************************************************)
(* Results of functions that may throw                                     *)
(***************************************************************************)
Thrown == [ok |-> FALSE, val |-> NaN]

Ret(x) == [ok |-> TRUE, val |-> x]

(***************************************************************************)
(* Objects keyed by 'leg_<k>'                                              *)
(***************************************************************************)
\* Object.keys(obj).length
KeyCount(obj) == Len(obj)

HasKey(obj, k) == \E i \in 1..Len(obj) : obj[i].key = k

\* obj['leg_' + k] of an object that has the key
LegOf(obj, k) == obj[CHOOSE i \in 1..Len(obj) : obj[i].key = k].leg

(***************************************************************************)
(* Dates.  The server's time zone is taken to be UTC, so that              *)
(* new Date('YYYY-MM-DD') (midnight UTC) followed by setHours/setMinutes   *)
(* (local time) is that day's HH:MM.                                       *)
(***************************************************************************)
MINUTE_MS == 1000 * 60

HOUR_MS == 60 * 60 * 1000

DAY_MS == 1000 * 60 * 60 * 24

\* the date strings of the model and the day each one names, counted from
\* the epoch; the last one matches the validator's pattern and names no day
DateTable ==
  ("2030-01-01" :> Num(0)) @@ ("2030-01-02" :> Num(1)) @@ ("2030-01-03" :> Num(2)) @@
  ("2030-01-07" :> Num(6)) @@ ("2030-01-12" :> Num(11)) @@ ("2030-01-13" :> Num(12)) @@
  ("2030-19-39" :> NaN)

\* the time strings of the model: hours and minutes as split(':') yields them
TimeTable ==
  ("00:00" :> [h |-> 0, m |-> 0]) @@ ("00:10" :> [h |-> 0, m |-> 10]) @@
  ("12:00" :> [h |-> 12, m |-> 0]) @@ ("12:01" :> [h |-> 12, m |-> 1]) @@
  ("11:59" :> [h |-> 11, m |-> 59]) @@ ("19:50" :> [h |-> 19, m |-> 50]) @@
  ("19:49" :> [h |-> 19, m |-> 49]) @@ ("23:45" :> [h |-> 23, m |-> 45]) @@
  ("23:50" :> [h |-> 23, m |-> 50])

IsDateString(s) == s # Undefined /\ Len(s) = 1 /\ s[1] \in DOMAIN DateTable

IsTimeString(s) == s # Undefined /\ Len(s) = 1 /\ s[1] \in DOMAIN TimeTable

\* new Date(s).getTime(): the day's midnight, NaN (Invalid Date) for undefined
\* and for a string that names no day
NewDate(s) ==
  IF IsDateString(s) /\ ~DateTable[s[1]].nan
    THEN Num(DateTable[s[1]].v * DAY_MS)
    ELSE NaN

\* date.setHours(t.split(':')[0]); date.setMinutes(t.split(':')[1]) for a
\* string t: an Invalid Date stays invalid, a t without numeric parts makes
\* the date invalid
SetHoursMinutes(date, t) ==
  IF date.nan \/ ~IsTimeString(t) THEN NaN
  ELSE Num(date.v + TimeTable[t[1]].h * HOUR_MS + TimeTable[t[1]].m * MINUTE_MS)

\* part_000:402-421; arrivalTime.split throws a TypeError on undefined
retrieveArrivalDate(_journey) ==
  LET amountLegs == KeyCount(_journey)
  IN  IF HasKey(_journey, amountLegs)
        THEN LET arrivalLeg == LegOf(_journey, amountLegs)
                 arrivalDate == NewDate(arrivalLeg.arrival_date)
                 arrivalTime == arrivalLeg.arrival_time
             IN  IF arrivalTime = Undefined THEN Thrown
                 ELSE Ret(SetHoursMinutes(arrivalDate, arrivalTime))
        ELSE Thrown

\* part_000:427-445
retrieveDepartureDate(_journey) ==
  IF HasKey(_journey, 1)
    THEN LET departureLeg == LegOf(_journey, 1)
             departureDate == NewDate(departureLeg.start_date)
             departureTime == departureLeg.start_time
         IN  IF departureTime = Undefined THEN Thrown
             ELSE Ret(SetHoursMinutes(departureDate, departureTime))
    ELSE Thrown

(***************************************************************************)
(* The policy gates (part_000:375-395)                                     *)
(***************************************************************************)
TIME_MIN == 1

TIME_MAX == 10

\* the mutant of OutOfWindow: the window closed at its ends
OutOfWindow_inclusive(diff) ==
  JsLt(diff, Num(TIME_MIN * DAY_MS)) \/ JsGt(diff, Num(TIME_MAX * DAY_MS))

\* part_000:379-380: diff is departure - now in ms; the code divides it by
\* one day and compares the quotient, which for integral ms decides the same
OutOfWindow(diff) ==
  JsLe(diff, Num(TIME_MIN * DAY_MS)) \/ JsGe(diff, Num(TIME_MAX * DAY_MS))

\* true (out of timeframe), false (the code's undefined), or thrown
checkTimeframe(journey, clock) ==
  LET departure == retrieveDepartureDate(journey)
  IN  IF ~departure.ok THEN Thrown
      ELSE Ret(OutOfWindow(JsSub(departure.val, Num(clock))))

\* String.prototype.toLowerCase on the symbols of the model
LowerTable ==
  ("ICE 123" :> "ice 123") @@ ("IC 705" :> "ic 705") @@ ("BUS" :> "bus") @@
  ("Schienenersatzverkehr Bus 12" :> "schienenersatzverkehr bus 12")

\* the mutant of toLowerCase: the name compared as it was written
toLowerCase_asWritten(s) == s

toLowerCase(s) == [i \in 1..Len(s) |-> IF s[i] \in DOMAIN LowerTable THEN LowerTable[s[i]] ELSE s[i]]

\* name.includes("bus") on lower-cased symbols
includesBus(name) ==
  \E i \in 1..Len(name) : name[i] \in {"bus", "schienenersatzverkehr bus 12"}

checkForRps(journey) ==
  \E i \in 1..Len(journey) : includesBus(toLowerCase(journey[i].leg.train))

(***************************************************************************)
(* calculateDelayMinutes (part_000:475-489), in minutes                    *)
(***************************************************************************)
\* the mutant of NeedsRollover: an arrival exactly 4 hours early corrected too
NeedsRollover_le(_scheduledDate, _realDate) ==
  JsLe(_realDate, JsSub(_scheduledDate, Num(4 * 60 * 60 * 1000)))

NeedsRollover(_scheduledDate, _realDate) ==
  JsLt(_realDate, JsSub(_scheduledDate, Num(4 * 60 * 60 * 1000)))

\* _realDate.setDate(_realDate.getDate() + 1)
AddOneDay(date) == JsAdd(date, Num(DAY_MS))

\* diff / 1000 / 60 of a difference of whole minutes
MsToMinutes(diff) == IF diff.nan THEN NaN ELSE Num(diff.v \div MINUTE_MS)

calculateDelayMinutes(_scheduledDate, _realDate) ==
  LET corrected == IF NeedsRollover(_scheduledDate, _realDate)
                     THEN AddOneDay(_realDate) ELSE _realDate
  IN  MsToMinutes(JsSub(corrected, _scheduledDate))

(***************************************************************************)
(* Request bodies.  req.body.journey is undefined, a string or an object;  *)
(* on /delay a body without 'journey' field is itself the journey.         *)
(***************************************************************************)
JsUndefined == [kind |-> "undefined", str |-> <<>>, obj |-> <<>>]

JsString(s) == [kind |-> "string", str |-> s, obj |-> <<>>]

JsObject(o) == [kind |-> "object", str |-> <<>>, obj |-> o]

\* the properties a for..in loop or Object.keys sees: the entries of an
\* object; a string has one per character and no 'leg_<k>'
AsObject(j) == IF j.kind = "object" THEN j.obj ELSE <<>>

(***************************************************************************)
(* src/validator.js                                                        *)
(***************************************************************************)
\* Joi.string().required(): present and not empty
RequiredString(x) == x # Undefined /\ Len(x) > 0

\* Joi.string().regex(/^([0-2][0-9])\:([0-5][0-9])$/), not required
OptionalTime(x) == x = Undefined \/ IsTimeString(x)

\* Joi.string().regex(/^(2[0-9]{3})\-([0-1][0-9])\-([0-3][0-9])$/), not required
OptionalDate(x) == x = Undefined \/ IsDateString(x)

\* validateLeg(leg).error == undefined
LegIsValid(leg) ==
  /\ RequiredString(leg.train)
  /\ RequiredString(leg.start_stop)
  /\ OptionalTime(leg.start_time)
  /\ OptionalDate(leg.start_date)
  /\ RequiredString(leg.arrival_stop)
  /\ OptionalTime(leg.arrival_time)
  /\ OptionalDate(leg.arrival_date)

\* validateType({type}).error == undefined
TypeIsValid(type) == type \in {"small", "medium", "large", "all"}

\* the for..in loop of part_000:106-113 and 225-232 leaves messages empty;
\* each character of a string journey is a leg that is no object
NoLegMessages(journey) ==
  IF journey.kind = "string" THEN Len(journey.str) = 0
  ELSE \A i \in 1..Len(journey.obj) : LegIsValid(journey.obj[i].leg)

\* Object.keys(journey).length === 0 && journey.constructor === Object
IsEmptyBody(journey) == journey.kind = "object" /\ Len(journey.obj) = 0

(***************************************************************************)
(* Status codes (part_000:42-47) and responses                             *)
(***************************************************************************)
STATUS_OK == 0

STATUS_SEV == 10

STATUS_TIME == 20

STATUS_PROBABILITY == 30

STATUS_MISSING_DELAY == 40

STATUS_ERROR == 100

NoResponse == [none |-> TRUE]

PayoutResponse(status, payout) == [status |-> status, payout |-> payout]

\* the mutant of DelayResponse: a delay that is no number reported as missing
DelayResponse_missing(status, delay) ==
  [status |-> IF delay.nan THEN STATUS_MISSING_DELAY ELSE status, delay |-> delay]

DelayResponse(status, delay) == [status |-> status, delay |-> delay]

(***************************************************************************)
(* The cache (part_000:66-71, lru-cache): entries [key, value, start],     *)
(* most recently used first.  The key is sha256(JSON.stringify(journey));   *)
(* sha256 is taken to be free of collisions, so that a digest is modelled  *)
(* by the text it was computed from.                                       *)
(***************************************************************************)
CACHE_MAX == 500

CACHE_TTL == 1000 * 60 * 10

\* JSON.stringify of a journey: its properties in insertion order, each one
\* the name 'leg_<k>' and the leg's fields in the order the leg lists them
JSONstringify(journey) ==
  [i \in 1..Len(journey) |->
     LET l == journey[i].leg
     IN  <<"leg_", journey[i].key,
           "train", l.train, "start_stop", l.start_stop, "start_time", l.start_time,
           "start_date", l.start_date, "arrival_stop", l.arrival_stop,
           "arrival_time", l.arrival_time, "arrival_date", l.arrival_date>>]

sha256(text) == text

hashOf(journey) == sha256(JSONstringify(journey))

CacheIndex(c, key) == {i \in 1..Len(c) : c[i].key = key}

CacheWithout(c, key) == SelectSeq(c, LAMBDA e : e.key # key)

\* ttlResolution (part_000:69): the cache reads the clock when it tests an
\* entry for staleness and keeps the reading for this long, so that a test
\* may see the clock up to TTL_RESOLUTION behind
TTL_RESOLUTION == 1000

\* the clock as a staleness test sees it: the kept reading while it lasts,
\* a new one otherwise
ClockReading(kept, clock) ==
  IF kept # 0 /\ clock - kept < TTL_RESOLUTION THEN kept ELSE clock

\* the mutant of IsStale: the time to live taken twice as long
IsStale_doubleTtl(e, clock) == clock - e.start > 2 * CACHE_TTL

IsStale(e, clock) == clock - e.start > CACHE_TTL

\* cache.get(key) with the clock read as clock: a stale entry is deleted and
\* reads as undefined; a fresh one becomes the most recently used.  Only an
\* entry that is there is tested for staleness (tested).
CacheGet(c, key, clock) ==
  IF CacheIndex(c, key) = {}
    THEN [hit |-> FALSE, value |-> NaN, cache |-> c, tested |-> FALSE]
  ELSE LET e == c[CHOOSE i \in CacheIndex(c, key) : TRUE]
       IN  IF IsStale(e, clock)
             THEN [hit |-> FALSE, value |-> NaN, cache |-> CacheWithout(c, key), tested |-> TRUE]
             ELSE [hit |-> TRUE, value |-> e.value, cache |-> <<e>> \o CacheWithout(c, key),
                   tested |-> TRUE]

\* cache.set(key, value): written as most recently used; at capacity the
\* least recently used entry goes
CacheSet(c, key, value, clock) ==
  LET rest == CacheWithout(c, key)
      kept == IF Len(rest) >= CACHE_MAX THEN SubSeq(rest, 1, CACHE_MAX - 1) ELSE rest
  IN  <<[key |-> key, value |-> value, start |-> clock]>> \o kept

(***************************************************************************)
(* The prediction service and requestProbability (part_000:496-530).       *)
(* A probability is kept in hundredths of a percent, as the string of      *)
(* toFixed(2) holds it; the service's delayProbability in units of 1e-5,   *)
(* so that delayProbability * 100 has three decimals.                      *)
(***************************************************************************)
\* (x).toFixed(2) of x in thousandths, ties aside: the nearest hundredth
ToFixed2(x) == IF x.nan THEN NaN ELSE Num((x.v + 5) \div 10)

\* the synchronous start of requestProbability: arrivalLeg.arrival_stop
\* throws when 'leg_<number of keys>' is missing
RequestCanBeBuilt(requestBody) == HasKey(requestBody, KeyCount(requestBody))

\* the then-callback and the lines after it, for an answer of the service
probabilityOf(answer) ==
  IF answer.kind = "json" THEN Ret(ToFixed2(answer.raw)) ELSE Thrown

(***************************************************************************)
(* Payout resolution (part_000:169-195)                                    *)
(***************************************************************************)
\* PAYOUTS[tier][row] of payout.json, rows 0..100: the cell read, or undefined
PAYOUTS(tier, row) ==
  IF ~row.nan /\ row.v \in 0..100
    THEN [defined |-> TRUE, tier |-> tier, row |-> row.v]
    ELSE [defined |-> FALSE, tier |-> tier, row |-> 0]

\* Math.ceil of a probability in hundredths
MathCeil(p) == IF p.nan THEN NaN ELSE Num(0 - ((0 - p.v) \div 100))

\* the mutant of ExceedsCap: the cap applied to the probability rounded down
ExceedsCap_rounded(probability) ==
  ~probability.nan /\ probability.v \div 100 > 40

\* probability > 40
ExceedsCap(probability) == JsGt(probability, Num(40 * 100))

\* the mutant of RoundedRow: rounded down
RoundedRow_floor(probability) ==
  IF probability.nan THEN NaN ELSE Num(probability.v \div 100)

RoundedRow(probability) == MathCeil(probability)

\* the mutant of resolvePayout: above the cap the tier's top row is sent along
resolvePayout_payoutOnCap(type, probability) ==
  IF ExceedsCap(probability)
    THEN PayoutResponse(STATUS_PROBABILITY, PAYOUTS(type, Num(40)))
    ELSE PayoutResponse(STATUS_OK, PAYOUTS(type, RoundedRow(probability)))

resolvePayout(type, probability) ==
  IF ExceedsCap(probability) THEN PayoutResponse(STATUS_PROBABILITY, Num(0))
  ELSE LET row == RoundedRow(probability)
       IN  IF type = "all"
             THEN PayoutResponse(STATUS_OK,
                    [small |-> PAYOUTS("small", row),
                     medium |-> PAYOUTS("medium", row),
                     large |-> PAYOUTS("large", row)])
             ELSE PayoutResponse(STATUS_OK, PAYOUTS(type, row))

(***************************************************************************)
(* POST /payouts (part_000:84-196).  The handler runs without interruption *)
(* up to its await: PayoutsSync is that part, PayoutsAfterFetch the rest.  *)
(* A handler whose promise rejects sends no response ("crashed").          *)
(***************************************************************************)
IdleReq ==
  [ep |-> "none", pc |-> "idle", body |-> [type |-> "", inField |-> FALSE, journey |-> JsUndefined],
   at |-> 0, journey |-> <<>>, sched |-> NaN, src |-> "none", prob |-> NaN,
   logged |-> "none", note |-> "none", resp |-> NoResponse]

\* the mutant of PayoutsJourney: the journey field taken as it came, whatever
\* the type
PayoutsJourney_asReceived(body) == Ret(body.journey)

\* part_000:90-98: a request whose type is not "all" is decoded; decode
\* calls split on its argument, which only a string has
PayoutsJourney(body) ==
  IF body.type # "all"
    THEN IF body.journey.kind = "string"
           THEN Ret(JsObject(decode(body.journey.str)))
           ELSE Thrown
    ELSE Ret(body.journey)

\* the mutant of ToBoolean: the entry tested as the number it stands for
ToBoolean_ofNumber(entry) == ~entry.nan /\ entry.v # 0

\* if (entry), part_000:150: a value is falsy when it is undefined, 0, NaN or
\* the empty string.  An entry that was found is the string toFixed(2)
\* returned (part_000:525), "0.00" and "NaN" included, and never empty.
ToBoolean(entry) == TRUE

\* the mutant of policyGate: the rail replacement check first
policyGate_rpsFirst(journey, clock) ==
  LET timeframe == checkTimeframe(journey, clock)
  IN  IF ~timeframe.ok THEN "throw"
      ELSE IF checkForRps(journey) THEN "sev"
      ELSE IF timeframe.val THEN "time"
      ELSE "pass"

\* part_000:129-143
policyGate(journey, clock) ==
  LET timeframe == checkTimeframe(journey, clock)
  IN  IF ~timeframe.ok THEN "throw"
      ELSE IF timeframe.val THEN "time"
      ELSE IF checkForRps(journey) THEN "sev"
      ELSE "pass"

PayoutsSync(body, clock, c, reading) ==
  LET base == [IdleReq EXCEPT !.ep = "payouts", !.body = body, !.at = clock]
      decoded == PayoutsJourney(body)
      journey == decoded.val
      legs == AsObject(journey)
      lookup == CacheGet(c, hashOf(legs), reading)
      error == PayoutResponse(STATUS_ERROR, Num(0))
  IN  IF ~decoded.ok \/ journey.kind = "undefined"
        THEN [req |-> [base EXCEPT !.pc = "crashed"], cache |-> c, fetch |-> FALSE, tested |-> FALSE]
      ELSE IF IsEmptyBody(journey) \/ ~NoLegMessages(journey) \/ ~TypeIsValid(body.type)
        THEN [req |-> [base EXCEPT !.pc = "done", !.resp = error], cache |-> c, fetch |-> FALSE, tested |-> FALSE]
      ELSE IF policyGate(legs, clock) = "throw"
        THEN [req |-> [base EXCEPT !.pc = "crashed", !.journey = legs], cache |-> c, fetch |-> FALSE, tested |-> FALSE]
      ELSE IF policyGate(legs, clock) = "time"
        THEN [req |-> [base EXCEPT !.pc = "done", !.journey = legs, !.logged = "out of timeframe",
                                   !.resp = PayoutResponse(STATUS_TIME, Num(0))],
              cache |-> c, fetch |-> FALSE, tested |-> FALSE]
      ELSE IF policyGate(legs, clock) = "sev"
        THEN [req |-> [base EXCEPT !.pc = "done", !.journey = legs,
                                   !.logged = "includes rail replacement service",
                                   !.resp = PayoutResponse(STATUS_SEV, Num(0))],
              cache |-> c, fetch |-> FALSE, tested |-> FALSE]
      ELSE IF lookup.hit /\ ToBoolean(lookup.value)
        THEN [req |-> [base EXCEPT !.pc = "done", !.journey = legs, !.src = "cache",
                                   !.prob = lookup.value,
                                   !.logged = IF body.type = "all" THEN "ok" ELSE "none",
                                   !.resp = resolvePayout(body.type, lookup.value)],
              cache |-> lookup.cache, fetch |-> FALSE, tested |-> lookup.tested]
      ELSE IF ~RequestCanBeBuilt(legs)
        THEN [req |-> [base EXCEPT !.pc = "done", !.journey = legs, !.src = "failed", !.resp = error],
              cache |-> lookup.cache, fetch |-> FALSE, tested |-> lookup.tested]
      ELSE [req |-> [base EXCEPT !.pc = "awaitPrediction", !.journey = legs, !.src = "fetch"],
            cache |-> lookup.cache, fetch |-> TRUE, tested |-> lookup.tested]

\* the mutant of PayoutsAfterFetch: the probability written to the cache
\* whether or not there is one
PayoutsAfterFetch_writesAnyway(req, answer, clock, c) ==
  LET probability == probabilityOf(answer)
  IN  [req |-> IF probability.ok
                 THEN [req EXCEPT !.pc = "done", !.prob = probability.val,
                                  !.logged = IF req.body.type = "all" THEN "ok" ELSE "none",
                                  !.resp = resolvePayout(req.body.type, probability.val)]
                 ELSE [req EXCEPT !.pc = "done", !.src = "failed",
                                  !.resp = PayoutResponse(STATUS_ERROR, Num(0))],
       cache |-> CacheSet(c, hashOf(req.journey), probability.val, clock)]

\* part_000:155-195 once the fetch has settled with answer
PayoutsAfterFetch(req, answer, clock, c) ==
  LET probability == probabilityOf(answer)
  IN  IF ~probability.ok
        THEN [req |-> [req EXCEPT !.pc = "done", !.src = "failed",
                                  !.resp = PayoutResponse(STATUS_ERROR, Num(0))],
              cache |-> c]
        ELSE [req |-> [req EXCEPT !.pc = "done", !.prob = probability.val,
                                  !.logged = IF req.body.type = "all" THEN "ok" ELSE "none",
                                  !.resp = resolvePayout(req.body.type, probability.val)],
              cache |-> CacheSet(c, hashOf(req.journey), probability.val, clock)]

(***************************************************************************)
(* POST /delay (part_000:204-271)                                          *)
(***************************************************************************)
DelayJourney(body) ==
  IF body.inField
    THEN IF body.journey.kind = "string"
           THEN Ret(JsObject(decode(body.journey.str)))
           ELSE Thrown
    ELSE Ret(body.journey)

DelaySync(body, clock) ==
  LET base == [IdleReq EXCEPT !.ep = "delay", !.body = body, !.at = clock]
      decoded == DelayJourney(body)
      journey == decoded.val
      legs == AsObject(journey)
      scheduledArrivalDate == retrieveArrivalDate(legs)
      error == DelayResponse(STATUS_ERROR, Num(0))
  IN  IF ~decoded.ok \/ journey.kind = "undefined"
        THEN [req |-> [base EXCEPT !.pc = "crashed"], fetch |-> FALSE]
      ELSE IF IsEmptyBody(journey) \/ ~NoLegMessages(journey)
        THEN [req |-> [base EXCEPT !.pc = "done", !.resp = error], fetch |-> FALSE]
      ELSE IF ~scheduledArrivalDate.ok
        THEN [req |-> [base EXCEPT !.pc = "crashed", !.journey = legs], fetch |-> FALSE]
      ELSE [req |-> [base EXCEPT !.pc = "awaitTracking", !.journey = legs,
                                 !.sched = scheduledArrivalDate.val],
            fetch |-> TRUE]

\* the mutant of clampDelay: no clamp
clampDelay_none(delay) == delay

\* part_000:259-262
clampDelay(delay) == IF JsLt(delay, Num(0)) THEN Num(0) ELSE delay

\* part_000:243-270 once the fetch has settled with answer; src keeps what
\* came back: nothing usable ("failed"), a journey without its last leg
\* ("noleg"), or an observed journey ("fetch")
DelayAfterFetch(req, answer) ==
  LET realArrivalDate == retrieveArrivalDate(answer.obj)
  IN  IF answer.kind # "json"
        THEN [req EXCEPT !.pc = "crashed", !.src = "failed"]
      ELSE IF ~realArrivalDate.ok
        THEN [req EXCEPT !.pc = "crashed",
                         !.src = IF HasKey(answer.obj, KeyCount(answer.obj)) THEN "fetch" ELSE "noleg"]
      ELSE [req EXCEPT !.pc = "done", !.src = "fetch",
                       !.resp = DelayResponse(STATUS_OK,
                                  clampDelay(calculateDelayMinutes(req.sched, realArrivalDate.val)))]

(***************************************************************************)
(* The requests of the model                                               *)
(***************************************************************************)
\* the wire encoding of a journey (the contract's side of decode): the seven
\* fields of each leg in order, joined by ';'
RECURSIVE encode(_)
encode(obj) ==
  IF Len(obj) = 0 THEN <<>>
  ELSE LET l == obj[1].leg
           one == l.train \o <<SEP>> \o l.start_stop \o <<SEP>> \o l.start_time \o <<SEP>>
                    \o l.start_date \o <<SEP>> \o l.arrival_stop \o <<SEP>>
                    \o l.arrival_time \o <<SEP>> \o l.arrival_date
       IN  IF Len(obj) = 1 THEN one ELSE one \o <<SEP>> \o encode(Tail(obj))

Leg(train, date, time) ==
  MkLeg(train, <<"Leipzig HBF">>, <<time>>, <<date>>, <<"Berlin HBF">>, <<"23:50">>, <<date>>)

Entry(k, leg) == [key |-> k, leg |-> leg]

\* the clock starts at 2030-01-02T12:00
StartOfTime == 1 * DAY_MS + 12 * HOUR_MS

JIn == <<Entry(1, Leg(<<"ICE 123">>, "2030-01-07", "12:00"))>>

JTwo == <<Entry(1, Leg(<<"ICE 123">>, "2030-01-07", "12:00")),
          Entry(2, Leg(<<"IC 705">>, "2030-01-07", "12:01"))>>

JAtOneDay == <<Entry(1, Leg(<<"ICE 123">>, "2030-01-03", "12:00"))>>

JAfterOneDay == <<Entry(1, Leg(<<"ICE 123">>, "2030-01-03", "12:01"))>>

JAtTenDays == <<Entry(1, Leg(<<"ICE 123">>, "2030-01-12", "12:00"))>>

JBeforeTenDays == <<Entry(1, Leg(<<"ICE 123">>, "2030-01-12", "11:59"))>>

\* the legs of JTwo with leg_2 listed before leg_1
JTwoReversed == <<Entry(2, Leg(<<"IC 705">>, "2030-01-07", "12:01")),
                  Entry(1, Leg(<<"ICE 123">>, "2030-01-07", "12:00"))>>

JBus == <<Entry(1, Leg(<<"ICE 123">>, "2030-01-07", "12:00")),
          Entry(2, Leg(<<"BUS">>, "2030-01-07", "12:01"))>>

JBusIn == <<Entry(1, Leg(<<"Schienenersatzverkehr Bus 12">>, "2030-01-07", "12:00"))>>

JBusLate == <<Entry(1, Leg(<<"Schienenersatzverkehr Bus 12">>, "2030-01-13", "12:00"))>>

JNoTrainLate == <<Entry(1, Leg(<<>>, "2030-01-13", "12:00"))>>

JNoFirstLeg == <<Entry(2, Leg(<<"ICE 123">>, "2030-01-07", "12:00"))>>

JGap == <<Entry(1, Leg(<<"ICE 123">>, "2030-01-07", "12:00")),
          Entry(3, Leg(<<"IC 705">>, "2030-01-07", "12:01"))>>

JNoDay == <<Entry(1, Leg(<<"ICE 123">>, "2030-19-39", "12:00"))>>

JNoStartTime ==
  <<Entry(1, MkLeg(<<"ICE 123">>, <<"Leipzig HBF">>, Undefined, <<"2030-01-07">>,
                   <<"Berlin HBF">>, <<"23:50">>, <<"2030-01-07">>))>>

Body(type, journey) == [type |-> type, inField |-> journey.kind # "undefined", journey |-> journey]

\* six tokens: no multiple of 7
SixTokens == <<"ICE 123", SEP, "Leipzig HBF", SEP, "12:00", SEP, "2030-01-07", SEP, "Berlin HBF", SEP, "23:50">>

OnPayouts(type, journey) == [ep |-> "payouts", body |-> Body(type, journey)]

OnDelay(inField, journey) ==
  [ep |-> "delay", body |-> [type |-> "", inField |-> inField, journey |-> journey]]

\* the requests of a run, and how many times to live its clock runs on
NumRequests == 2

MaxTicks == 1

\* what the prediction service answers: no answer at all, a status other than
\* 200, a body that is no JSON, or a JSON body with this delayProbability
PredictionFailures == {[kind |-> k, raw |-> NaN] : k \in {"unreachable", "non200", "badjson"}}

Predicts(x) == [kind |-> "json", raw |-> x]

\* the scheduled journeys of /delay arrive 2030-01-02 at 23:50
Arrival(date, time) ==
  <<Entry(1, MkLeg(<<"ICE 123">>, <<"Leipzig HBF">>, <<"12:00">>, <<"2030-01-02">>,
                   <<"Berlin HBF">>, time, date))>>

\* what the tracking service answers: the observed journey, or none
TrackingFailures == {[kind |-> k, obj |-> <<>>] : k \in {"unreachable", "badjson"}}

Observes(j) == [kind |-> "json", obj |-> j]

\* A menu is one run's surroundings: the requests its clients send and how
\* many of them, the answers its two upstream services give, the instants its
\* clock moves to, how the Telegram API settles a send (deliveries: it
\* delivers, TRUE, or rejects, FALSE; in most runs it does not answer while
\* the run lasts) and what the Node process does on an unhandled rejection.
Menu(requests, predictions, observations, instants) ==
  [requests |-> requests, predictions |-> predictions,
   observations |-> observations, instants |-> instants, clients |-> NumRequests,
   deliveries |-> {}, rejections |-> {"throw"}]

\* a menu in whose runs handlers throw: under either reaction of the process
InEitherMode(m) == [m EXCEPT !.rejections = {"warn", "throw"}]

\* one journey in the window, for every type and in both wire forms
TierMenu ==
  Menu({OnPayouts("all", JsObject(JIn))}
         \cup {OnPayouts(t, JsString(encode(JIn))) : t \in {"small", "medium", "large"}},
       {Predicts(Num(12300)), Predicts(Num(25000)), Predicts(Num(40000)), Predicts(Num(40004)),
        Predicts(Num(40010))},
       {}, {})

\* journeys that fail one gate or several
GateMenu ==
  Menu({OnPayouts("all", JsObject(j)) : j \in {JIn, JBus, JBusIn, JBusLate, JNoTrainLate}}
         \cup {OnPayouts("small", JsString(encode(j))) : j \in {JBusLate, JNoTrainLate}},
       {Predicts(Num(25000)), Predicts(Num(90000))} \cup PredictionFailures,
       {}, {})

\* departures at the ends of the window, and on no day at all
WindowMenu ==
  Menu({OnPayouts("all", JsObject(j)) :
          j \in {JAtOneDay, JAfterOneDay, JAtTenDays, JBeforeTenDays, JNoDay, JIn}}
         \cup {OnPayouts("small", JsString(encode(JAtTenDays)))},
       {Predicts(Num(25000))},
       {}, {StartOfTime + 1, StartOfTime + MINUTE_MS, StartOfTime + CACHE_TTL + 1})

\* journeys of two legs, of no leg, and with legs missing
ShapeMenu ==
  InEitherMode(Menu({OnPayouts("all", JsObject(j)) : j \in {JTwo, JNoFirstLeg, JGap, JNoStartTime, <<>>}}
         \cup {OnPayouts("small", JsString(encode(JTwo))), OnPayouts("small", JsString(SixTokens))},
       {Predicts(Num(25000)), [kind |-> "unreachable", raw |-> NaN]},
       {}, {}))

\* types and journey values the two wire forms do not foresee
WireMenu ==
  InEitherMode(Menu({OnPayouts("small", JsObject(JIn)), OnPayouts("small", JsUndefined),
        OnPayouts("all", JsUndefined), OnPayouts("all", JsString(encode(JIn))),
        OnPayouts("all", JsString(<<>>)), OnPayouts("gold", JsString(encode(JIn))),
        OnPayouts(Undefined[1], JsString(encode(JIn))), OnPayouts("all", JsObject(JIn)),
        OnPayouts("small", JsString(encode(JIn)))},
       {Predicts(Num(25000))},
       {}, {}))

\* one journey again and again while its cache entry ages
CacheMenu ==
  Menu({OnPayouts("all", JsObject(JIn)), OnPayouts("small", JsString(encode(JIn)))},
       {Predicts(Num(0)), Predicts(Num(25000)), Predicts(Num(90000)),
        [kind |-> "non200", raw |-> NaN]},
       {}, {StartOfTime + k * CACHE_TTL + e : k \in 1..MaxTicks, e \in {0, 1}})

\* one journey at the end of its entry's time to live, asked for once more
\* than elsewhere: by the request that writes the entry, by one that reads
\* it and by one that comes after that
ExpiryMenu ==
  [Menu({OnPayouts("all", JsObject(JIn))},
        {Predicts(Num(25000))},
        {},
        {StartOfTime + CACHE_TTL + e : e \in {0, 1, TTL_RESOLUTION - 1, TTL_RESOLUTION}})
     EXCEPT !.clients = NumRequests + 1]

\* a prediction service that answers 200 with anything
UpstreamMenu ==
  Menu({OnPayouts("all", JsObject(JIn)), OnPayouts("small", JsString(encode(JIn)))},
       {Predicts(NaN), Predicts(Num(0 - 50000)), Predicts(Num(0 - 400)), Predicts(Num(150000))},
       {}, {})

DelayMenu ==
  InEitherMode(Menu({OnDelay(FALSE, JsObject(j)) :
          j \in {Arrival(<<"2030-01-02">>, <<"23:50">>), Arrival(<<"2030-19-39">>, <<"23:50">>),
                 Arrival(<<"2030-01-02">>, Undefined), JNoFirstLeg, JNoTrainLate, <<>>}}
         \cup {OnDelay(TRUE, j) :
                 j \in {JsString(encode(Arrival(<<"2030-01-02">>, <<"23:50">>))),
                        JsString(SixTokens),
                        JsObject(Arrival(<<"2030-01-02">>, <<"23:50">>))}},
       {},
       TrackingFailures
         \cup {Observes(j) :
                 j \in {Arrival(<<"2030-01-02">>, <<"23:50">>), Arrival(<<"2030-01-03">>, <<"00:10">>),
                        Arrival(<<"2030-01-02">>, <<"00:10">>), Arrival(<<"2030-01-02">>, <<"23:45">>),
                        Arrival(<<"2030-01-02">>, <<"19:50">>), Arrival(<<"2030-01-02">>, <<"19:49">>),
                        Arrival(<<"2030-01-01">>, <<"00:10">>), Arrival(<<"2030-19-39">>, <<"23:50">>),
                        Arrival(<<"2030-01-02">>, <<"late">>), JNoFirstLeg, <<>>}},
       {}))

\* one journey of two legs in each wire form and in both orders of its keys
OrderMenu ==
  Menu({OnPayouts("all", JsObject(JTwo)), OnPayouts("all", JsObject(JTwoReversed)),
        OnPayouts("small", JsString(encode(JTwo)))},
       {Predicts(Num(25000))},
       {}, {})

\* requests that are logged, one on each of the three occasions, and one
\* that waits for the tracking service, while the Telegram API delivers or
\* rejects
NotifyMenu ==
  [InEitherMode(
     Menu({OnPayouts("all", JsObject(JIn)), OnPayouts("all", JsObject(JBusIn)),
           OnPayouts("all", JsObject(JAtTenDays)),
           OnDelay(FALSE, JsObject(Arrival(<<"2030-01-02">>, <<"23:50">>)))},
          {Predicts(Num(25000))},
          {Observes(Arrival(<<"2030-01-03">>, <<"00:10">>))},
          {}))
     EXCEPT !.deliveries = BOOLEAN]

\* both endpoints at once
MixedMenu ==
  InEitherMode(Menu({OnPayouts("all", JsObject(JIn)), OnPayouts("small", JsString(encode(JIn))),
        OnDelay(FALSE, JsObject(Arrival(<<"2030-01-02">>, <<"23:50">>)))},
       {Predicts(Num(25000)), [kind |-> "unreachable", raw |-> NaN]},
       {Observes(Arrival(<<"2030-01-03">>, <<"00:10">>)), [kind |-> "unreachable", obj |-> <<>>]},
       {}))

Menus ==
  {TierMenu, GateMenu, WindowMenu, ShapeMenu, WireMenu, CacheMenu, ExpiryMenu, UpstreamMenu,
   DelayMenu, OrderMenu, NotifyMenu, MixedMenu}

(***************************************************************************)
(* The server                                                              *)
(***************************************************************************)
\* A promise that rejects with no handler on it: the rejected promise of an
\* async route handler (the router does not look at what a handler returns)
\* and the promise sendMsg's catch callback rethrows into
\* (part_001:37-39).  The process only warns, or it ends with the error as
\* an uncaught exception: which of the two is the Node version's default or
\* the --unhandled-rejections flag, the same for the whole run.
UnhandledRejection(p) == [p EXCEPT !.up = (p.onRejection # "throw")]

\* logRequest (part_000:532-545) and sendMsg (part_001:31-40), called
\* without await by a handler that has set logged: the message is composed
\* and its send to the Telegram API is under way when logRequest returns
logRequest(q) == IF q.logged # "none" THEN [q EXCEPT !.note = "pending"] ELSE q

\* the handler's promise rejects when the handler has thrown
AfterHandler(q, p) == IF q.pc = "crashed" THEN UnhandledRejection(p) ELSE p

Init ==
  /\ now = StartOfTime
  /\ cache = <<>>
  /\ cachedNow = 0
  /\ menu \in Menus
  /\ reqs = [r \in 1..menu.clients |-> IdleReq]
  /\ fetches = <<>>
  /\ proc \in [onRejection : menu.rejections, up : {TRUE}]
  /\ PureIdle

\* requests are taken in the order of their numbers, while the process runs
CanStart(r) ==
  /\ proc.up
  /\ reqs[r].pc = "idle"
  /\ \A q \in DOMAIN reqs : q < r => reqs[q].pc # "idle"

\* the mutant of PayoutsStart: the cache looked up before the gates
PayoutsStart_lookupFirst(r, body) ==
  /\ CanStart(r)
  /\ [ep |-> "payouts", body |-> body] \in menu.requests
  /\ LET out == PayoutsSync(body, now, cache, ClockReading(cachedNow, now))
     IN  /\ reqs' = [reqs EXCEPT ![r] = logRequest(out.req)]
         /\ cache' = IF out.req.src = "none"
                       THEN CacheGet(cache, hashOf(out.req.journey), now).cache
                       ELSE out.cache
         /\ cachedNow' = IF out.tested THEN ClockReading(cachedNow, now) ELSE cachedNow
         /\ fetches' = IF out.fetch THEN Append(fetches, [svc |-> "prediction", req |-> r])
                       ELSE fetches
         /\ proc' = AfterHandler(out.req, proc)
  /\ UNCHANGED <<now, menu, pureVars>>

PayoutsStart(r, body) ==
  /\ CanStart(r)
  /\ [ep |-> "payouts", body |-> body] \in menu.requests
  /\ LET out == PayoutsSync(body, now, cache, ClockReading(cachedNow, now))
     IN  /\ reqs' = [reqs EXCEPT ![r] = logRequest(out.req)]
         /\ cache' = out.cache
         /\ cachedNow' = IF out.tested THEN ClockReading(cachedNow, now) ELSE cachedNow
         /\ fetches' = IF out.fetch THEN Append(fetches, [svc |-> "prediction", req |-> r])
                       ELSE fetches
         /\ proc' = AfterHandler(out.req, proc)
  /\ UNCHANGED <<now, menu, pureVars>>

PayoutsResume(r, answer) ==
  /\ proc.up
  /\ reqs[r].pc = "awaitPrediction"
  /\ LET out == PayoutsAfterFetch(reqs[r], answer, now, cache)
     IN  /\ reqs' = [reqs EXCEPT ![r] = logRequest(out.req)]
         /\ cache' = out.cache
  /\ UNCHANGED <<now, cachedNow, fetches, menu, proc, pureVars>>

DelayStart(r, body) ==
  /\ CanStart(r)
  /\ [ep |-> "delay", body |-> body] \in menu.requests
  /\ LET out == DelaySync(body, now)
     IN  /\ reqs' = [reqs EXCEPT ![r] = out.req]
         /\ fetches' = IF out.fetch THEN Append(fetches, [svc |-> "tracking", req |-> r])
                       ELSE fetches
         /\ proc' = AfterHandler(out.req, proc)
  /\ UNCHANGED <<now, cache, cachedNow, menu, pureVars>>

DelayResume(r, answer) ==
  /\ proc.up
  /\ reqs[r].pc = "awaitTracking"
  /\ reqs' = [reqs EXCEPT ![r] = DelayAfterFetch(reqs[r], answer)]
  /\ proc' = AfterHandler(reqs'[r], proc)
  /\ UNCHANGED <<now, cache, cachedNow, fetches, menu, pureVars>>

\* bot.telegram.sendMessage settles (part_001:32-39): delivered, or rejected,
\* and then the catch callback throws and nothing handles its promise
SendSettles(r, delivered) ==
  /\ proc.up
  /\ reqs[r].note = "pending"
  /\ reqs' = [reqs EXCEPT ![r].note = IF delivered THEN "sent" ELSE "failed"]
  /\ proc' = IF delivered THEN proc ELSE UnhandledRejection(proc)
  /\ UNCHANGED <<now, cache, cachedNow, fetches, menu, pureVars>>

\* time passes
Tick(t) ==
  /\ t > now
  /\ now' = t
  /\ UNCHANGED <<cache, cachedNow, reqs, fetches, menu, proc, pureVars>>

Next ==
  \/ \E r \in DOMAIN reqs, m \in menu.requests : PayoutsStart(r, m.body)
  \/ \E r \in DOMAIN reqs, answer \in menu.predictions : PayoutsResume(r, answer)
  \/ \E r \in DOMAIN reqs, m \in menu.requests : DelayStart(r, m.body)
  \/ \E r \in DOMAIN reqs, answer \in menu.observations : DelayResume(r, answer)
  \/ \E r \in DOMAIN reqs, delivered \in menu.deliveries : SendSettles(r, delivered)
  \/ \E t \in menu.instants : Tick(t)

Spec == Init /\ [][Next]_vars

(***************************************************************************)
(* The pure functions on their own: Init draws the arguments, the action   *)
(* applies the function once.                                              *)
(***************************************************************************)
MaxEncodedLen == 14

DecodeAlphabet == {SEP, "a"}

EncodedStrings == UNION {[1..n -> DecodeAlphabet] : n \in 0..MaxEncodedLen}

InitDecode ==
  /\ MainIdle
  /\ callFn = "decode"
  /\ callArg \in EncodedStrings
  /\ callOut = NotCalled

CallDecode ==
  /\ callFn = "decode"
  /\ ~callOut.done
  /\ callOut' = Called(decode(callArg))
  /\ UNCHANGED <<callFn, callArg, mainVars>>

NextDecode == CallDecode

SpecDecode == InitDecode /\ [][NextDecode]_vars

\* calculateDelayMinutes is applied to the instants retrieveArrivalDate
\* builds: whole minutes, or an Invalid Date.  The scheduled instant is
\* 23:50 of day 1, the observed one lies MaxLateMinutes around it, around
\* the 4-hour guard and around the guard one day earlier.
MaxLateMinutes == 30

ScheduledInstants == {Num(1 * DAY_MS + 23 * HOUR_MS + 50 * MINUTE_MS), NaN}

ObservedOffsets ==
  ((0 - MaxLateMinutes)..MaxLateMinutes)
    \cup ((0 - 240 - MaxLateMinutes)..(0 - 240 + MaxLateMinutes))
    \cup ((0 - 1440 - 240 - MaxLateMinutes)..(0 - 1440 - 240 + MaxLateMinutes))
    \cup {0 - 1420}

ObservedInstants ==
  {Num(1 * DAY_MS + 23 * HOUR_MS + 50 * MINUTE_MS + d * MINUTE_MS) : d \in ObservedOffsets}
    \cup {NaN}

InitDelayCalc ==
  /\ MainIdle
  /\ callFn = "calculateDelayMinutes"
  /\ callArg \in [scheduled : ScheduledInstants, real : ObservedInstants]
  /\ callOut = NotCalled

CallDelayCalc ==
  /\ callFn = "calculateDelayMinutes"
  /\ ~callOut.done
  /\ callOut' = Called(calculateDelayMinutes(callArg.scheduled, callArg.real))
  /\ UNCHANGED <<callFn, callArg, mainVars>>

NextDelayCalc == CallDelayCalc

SpecDelayCalc == InitDelayCalc /\ [][NextDelayCalc]_vars

\* decode applied to the encoding of a Journey: up to MaxLegs legs keyed
\* leg_1..leg_n, every field a string without ';': the empty one, or a run
\* of other characters.  The last leg is any leg; the legs before it have
\* no field, one field or every field non-empty.
MaxLegs == 2

FieldValues == {<<>>, <<"a">>}

FieldNames ==
  {"train", "start_stop", "start_time", "start_date", "arrival_stop", "arrival_time", "arrival_date"}

AnyLeg == [FieldNames -> FieldValues]

EdgeLegs ==
  {l \in AnyLeg : Cardinality({f \in FieldNames : l[f] # <<>>}) \in {0, 1, 7}}

Journeys ==
  UNION {{[k \in 1..n |-> [key |-> k, leg |-> IF k = n THEN last ELSE before[k]]] :
            before \in [1..(n - 1) -> EdgeLegs], last \in AnyLeg}
           : n \in 0..MaxLegs}

InitRoundTrip ==
  /\ MainIdle
  /\ callFn = "decode(encode)"
  /\ callArg \in Journeys
  /\ callOut = NotCalled

CallRoundTrip ==
  /\ callFn = "decode(encode)"
  /\ ~callOut.done
  /\ callOut' = Called(decode(encode(callArg)))
  /\ UNCHANGED <<callFn, callArg, mainVars>>

NextRoundTrip == CallRoundTrip

SpecRoundTrip == InitRoundTrip /\ [][NextRoundTrip]_vars

(***************************************************************************)
(* Tokens of an encoded string, stated from the separators' positions      *)
(***************************************************************************)
TokenCount(s) == Cardinality(SepPositions(s)) + 1

\* the position of the k-th separator; 0 before the first, Len + 1 after the last
SepAt(s, k) ==
  IF k = 0 THEN 0
  ELSE IF k = TokenCount(s) THEN Len(s) + 1
  ELSE CHOOSE p \in SepPositions(s) : Cardinality({q \in SepPositions(s) : q < p}) = k - 1

Token(s, k) == SubSeq(s, SepAt(s, k - 1) + 1, SepAt(s, k) - 1)

\* C10: decode returns the empty Journey when the number of ';'-separated
\* tokens is not a multiple of 7; otherwise, with n = tokens / 7, a Journey
\* whose keys are exactly leg_1..leg_n in order, leg_k built from the tokens
\* 7(k-1) .. 7(k-1)+6 in the order train, start_stop, start_time, start_date,
\* arrival_stop, arrival_time, arrival_date.
C10_DecodeGroupsOfSeven ==
  (callFn = "decode" /\ callOut.done) =>
    LET s == callArg
        J == callOut.val
        n == TokenCount(s) \div 7
    IN  IF TokenCount(s) % 7 # 0 THEN J = <<>>
        ELSE /\ Len(J) = n
             /\ \A k \in 1..n :
                  /\ J[k].key = k
                  /\ J[k].leg.train = Token(s, 7 * (k - 1) + 1)
                  /\ J[k].leg.start_stop = Token(s, 7 * (k - 1) + 2)
                  /\ J[k].leg.start_time = Token(s, 7 * (k - 1) + 3)
                  /\ J[k].leg.start_date = Token(s, 7 * (k - 1) + 4)
                  /\ J[k].leg.arrival_stop = Token(s, 7 * (k - 1) + 5)
                  /\ J[k].leg.arrival_time = Token(s, 7 * (k - 1) + 6)
                  /\ J[k].leg.arrival_date = Token(s, 7 * (k - 1) + 7)

\* a two-leg string decoded, its one non-empty token in the second leg
C10_Witness ==
  /\ callFn = "decode"
  /\ callOut.done
  /\ TokenCount(callArg) = 14
  /\ Len(callOut.val) = 2
  /\ callOut.val[2].leg.arrival_stop = <<"a">>

\* C7: calculateDelayMinutes adds exactly one day to the observed instant if
\* and only if it is strictly earlier than scheduled minus 4 hours, at most
\* once, and returns (correctedObserved - scheduled) in minutes.
C7_DelayMinutes ==
  (callFn = "calculateDelayMinutes" /\ callOut.done) =>
    IF callArg.scheduled.nan \/ callArg.real.nan THEN callOut.val = NaN
    ELSE LET sched == callArg.scheduled.v \div 60000
             obs == callArg.real.v \div 60000
         IN  /\ ~callOut.val.nan
             /\ callOut.val.v = IF obs < sched - 240 THEN (obs + 1440) - sched ELSE obs - sched

\* scheduled 23:50, observed 00:10 of the same date: 20 minutes
C7_Witness ==
  /\ callFn = "calculateDelayMinutes"
  /\ callOut.done
  /\ callArg.scheduled = Num(1 * DAY_MS + 23 * HOUR_MS + 50 * MINUTE_MS)
  /\ callArg.real = Num(1 * DAY_MS + 10 * MINUTE_MS)
  /\ callOut.val = Num(20)

\* C11: round trip.  For every Journey, of any number of legs (none
\* included), whose field values contain no ';', decoding the encoding of the
\* journey yields a Journey equal to the original.
C11_RoundTrip ==
  (callFn = "decode(encode)" /\ callOut.done) => callOut.val = callArg

\* a journey of two legs, with empty and non-empty fields, decoded from its
\* encoding; and the journey without legs decoded from the empty string
C11_Witness ==
  /\ callFn = "decode(encode)"
  /\ callOut.done
  /\ \/ /\ Len(callArg) = 2
        /\ callArg[1].leg.train = <<"a">> /\ callArg[1].leg.arrival_date = <<>>
        /\ callArg[2].leg.train = <<>> /\ callArg[2].leg.start_stop = <<"a">>
        /\ Len(callOut.val) = 2
        /\ callOut.val[2].leg.start_stop = <<"a">>
     \/ callArg = <<>> /\ callOut.val = <<>>

(***************************************************************************)
(* The claims about the two endpoints                                      *)
(***************************************************************************)
Answered(q) == q.pc = "done"

OfPayouts(q) == q.ep = "payouts" /\ q.pc # "idle"

OfDelay(q) == q.ep = "delay" /\ q.pc # "idle"

\* what part_000:90-98 makes of each body of the model, worked out once
DecodedBodies ==
  [b \in {m.body : m \in UNION {mm.requests : mm \in Menus}} \cup {IdleReq.body}
     |-> PayoutsJourney(b)]

\* the journey a /payouts handler works on; the request did not fail before
\* its empty check
WorkedOn(q) == DecodedBodies[q.body].val

ReachedEmptyCheck(q) == DecodedBodies[q.body].ok /\ WorkedOn(q).kind # "undefined"

PassedValidation(q) ==
  /\ ReachedEmptyCheck(q)
  /\ ~IsEmptyBody(WorkedOn(q))
  /\ NoLegMessages(WorkedOn(q))
  /\ TypeIsValid(q.body.type)

\* the departure of leg_1 read from the tables, in ms; the leg has a start time
DepartureOf(q) ==
  LET leg == LegOf(AsObject(WorkedOn(q)), 1)
      day == DateTable[leg.start_date[1]]
      time == TimeTable[leg.start_time[1]]
  IN  IF leg.start_date = Undefined \/ day.nan THEN NaN
      ELSE Num(day.v * 86400000 + time.h * 3600000 + time.m * 60000)

HasDeparture(q) ==
  /\ HasKey(AsObject(WorkedOn(q)), 1)
  /\ LegOf(AsObject(WorkedOn(q)), 1).start_time # Undefined

\* diffDays <= 1 or diffDays >= 10, at the instant the request was handled
OutOfTimeframe(q) ==
  /\ ~DepartureOf(q).nan
  /\ \/ DepartureOf(q).v - q.at <= 86400000
     \/ DepartureOf(q).v - q.at >= 10 * 86400000

\* the status the gates give in their order, for a request that was answered
FirstFailingGate(q) ==
  IF ~PassedValidation(q) THEN 100
  ELSE IF OutOfTimeframe(q) THEN 20
  ELSE IF checkForRps(AsObject(WorkedOn(q))) THEN 10
  ELSE IF q.src = "failed" THEN 100
  ELSE IF ~q.prob.nan /\ q.prob.v > 4000 THEN 30
  ELSE 0

\* C1: the outcome of a /payouts request is decided by the first gate that
\* fails, in the order empty check, validation, timeframe, rail replacement,
\* cache or fetch, probability cap, payout resolution: a request failing
\* validation is answered 100 even if out of timeframe, a validated journey
\* out of timeframe with a bus leg is answered 20, and 0 only when every
\* gate passed.
C1_FirstFailingGateDecides ==
  \A r \in DOMAIN reqs :
    (OfPayouts(reqs[r]) /\ Answered(reqs[r])) =>
      reqs[r].resp.status = FirstFailingGate(reqs[r])

\* a journey both out of timeframe and with a bus leg answered 20, and one
\* failing validation and out of timeframe answered 100
C1_Witness ==
  \E r1, r2 \in DOMAIN reqs :
    /\ Answered(reqs[r1]) /\ reqs[r1].body = Body("all", JsObject(JBusLate))
    /\ reqs[r1].resp.status = 20
    /\ Answered(reqs[r2]) /\ reqs[r2].body = Body("small", JsString(encode(JNoTrainLate)))
    /\ reqs[r2].resp.status = 100

\* the prediction fetches issued for the requests of rs
PredictionFetches(rs) ==
  {i \in 1..Len(fetches) : fetches[i].svc = "prediction" /\ fetches[i].req \in rs}

ReachedCache(q) == OfPayouts(q) /\ q.src # "none"

\* C2 (as claimed): two /payouts requests with identical journeys that both
\* passed the validation, timeframe and rail replacement gates within the
\* time to live of each other cause exactly one prediction fetch in total,
\* also when the second looks the cache up while the first's fetch is in flight.
C2_OneFetchForTwoRequests ==
  \A r1, r2 \in DOMAIN reqs :
    (/\ r1 < r2
     /\ ReachedCache(reqs[r1]) /\ ReachedCache(reqs[r2])
     /\ reqs[r1].journey = reqs[r2].journey
     /\ reqs[r2].at - reqs[r1].at <= CACHE_TTL)
    => Cardinality(PredictionFetches({r1, r2})) = 1

\* the journey of a request lacks the leg its departure (on /payouts) or its
\* arrival (on /delay) is read from, and the handler got as far as reading it
LacksExpectedLeg(q) ==
  \/ /\ OfPayouts(q) /\ PassedValidation(q)
     /\ ~HasKey(AsObject(WorkedOn(q)), 1)
  \/ /\ OfDelay(q) /\ DelayJourney(q.body).ok
     /\ DelayJourney(q.body).val.kind = "object"
     /\ ~IsEmptyBody(DelayJourney(q.body).val)
     /\ NoLegMessages(DelayJourney(q.body).val)
     /\ ~HasKey(DelayJourney(q.body).val.obj, Len(DelayJourney(q.body).val.obj))
  \/ OfDelay(q) /\ q.src = "noleg"

IsError(q) ==
  /\ Answered(q)
  /\ \/ q.ep = "payouts" /\ q.resp = PayoutResponse(100, Num(0))
     \/ q.ep = "delay" /\ q.resp = DelayResponse(100, Num(0))

\* C3 (as claimed): a journey lacking an expected leg when the departure or
\* arrival instant is computed, in the request on either endpoint or in the
\* observed journey of /delay, never crashes the handler: the request is
\* answered with status 100 and payout 0 / delay 0.
C3_MissingLegAnsweredError ==
  \A r \in DOMAIN reqs : LacksExpectedLeg(reqs[r]) => IsError(reqs[r])

\* C4 (as claimed): an upstream failure becomes a response with status 100
\* and payout 0 on /payouts, delay 0 on /delay; it does not leave the
\* handler, and the request fetches once.
C4_UpstreamFailureAnsweredError ==
  \A r \in DOMAIN reqs :
    /\ (reqs[r].pc # "idle" /\ reqs[r].src = "failed") => IsError(reqs[r])
    /\ Cardinality({i \in 1..Len(fetches) : fetches[i].req = r}) <= 1

\* the same legs under the same keys, in whatever order the keys are listed
SameContent(j1, j2) ==
  {<<j1[i].key, j1[i].leg>> : i \in 1..Len(j1)} = {<<j2[i].key, j2[i].leg>> : i \in 1..Len(j2)}

\* C12 (as claimed): the cache fingerprint depends only on the journey's
\* content, not on the request's origin nor on the order in which the keys
\* were supplied: two requests that reach the cache with the same legs under
\* the same keys have the same fingerprint, and so share one cache entry.
C12_FingerprintOfContent ==
  \A r1, r2 \in DOMAIN reqs :
    (/\ ReachedCache(reqs[r1]) /\ ReachedCache(reqs[r2])
     /\ SameContent(reqs[r1].journey, reqs[r2].journey))
    => /\ hashOf(reqs[r1].journey) = hashOf(reqs[r2].journey)
       /\ Cardinality({i \in 1..Len(cache) :
                         cache[i].key \in {hashOf(reqs[r1].journey), hashOf(reqs[r2].journey)}}) <= 1

\* answered by the empty check, the validation gate, the timeframe gate or
\* the rail replacement gate
GateAnswered(q) ==
  /\ OfPayouts(q) /\ Answered(q)
  /\ ~PassedValidation(q) \/ q.resp.status \in {10, 20}

\* C13: each /payouts request issues at most one prediction fetch, and a
\* request answered by the empty check, the validation gate, the timeframe
\* gate or the rail replacement gate issues none and leaves the cache, its
\* entries and their recency, unchanged.
C13_GateAnswersLeaveCache ==
  /\ [](\A r \in DOMAIN reqs :
          /\ Cardinality(PredictionFetches({r})) <= 1
          /\ GateAnswered(reqs[r]) => PredictionFetches({r}) = {})
  /\ [][\A r \in DOMAIN reqs :
          (reqs[r].pc = "idle" /\ GateAnswered(reqs'[r]))
            => (cache' = cache /\ fetches' = fetches)]_vars

\* a request answered 20 for a journey whose entry, written when the journey
\* was still in the window, has gone stale in the cache and stays there
C13_Witness ==
  /\ \E r \in DOMAIN reqs :
       /\ GateAnswered(reqs[r]) /\ reqs[r].resp.status = 20
       /\ \E i \in 1..Len(cache) :
            cache[i].key = hashOf(reqs[r].journey) /\ IsStale(cache[i], now)
       /\ PredictionFetches({r}) = {}

\* C14: every /payouts response whose status is not OK (0) carries payout
\* exactly 0, for TIME (20), SEV (10), PROBABILITY (30) and ERROR (100)
\* alike, and never a partial or per-tier payout.
C14_NoPayoutUnlessOk ==
  \A r \in DOMAIN reqs :
    (OfPayouts(reqs[r]) /\ Answered(reqs[r]) /\ reqs[r].resp.status # 0)
      => reqs[r].resp.payout = Num(0)

\* a request of type 'all' answered 30 and one answered 100 after its fetch
\* failed, both with payout 0
C14_Witness ==
  \E r1, r2 \in DOMAIN reqs :
    /\ OfPayouts(reqs[r1]) /\ Answered(reqs[r1]) /\ reqs[r1].body.type = "all"
    /\ reqs[r1].resp = PayoutResponse(30, Num(0))
    /\ OfPayouts(reqs[r2]) /\ Answered(reqs[r2]) /\ reqs[r2].src = "failed"
    /\ reqs[r2].resp = PayoutResponse(100, Num(0))

\* the train names of the model that contain "bus" in some case
BusTrains == {<<"BUS">>, <<"Schienenersatzverkehr Bus 12">>}

HasBusLeg(q) ==
  \E i \in 1..Len(AsObject(WorkedOn(q))) : AsObject(WorkedOn(q))[i].leg.train \in BusTrains

\* C15: for a journey that has passed validation and the timeframe gate,
\* /payouts answers {status: 10, payout: 0} if and only if at least one leg's
\* train contains "bus" in some case ("Schienenersatzverkehr Bus 12", "BUS");
\* a journey without such a leg ("ICE 123") is never answered 10.
C15_RailReplacementIffBus ==
  \A r \in DOMAIN reqs :
    (/\ OfPayouts(reqs[r]) /\ PassedValidation(reqs[r])
     /\ HasDeparture(reqs[r]) /\ ~OutOfTimeframe(reqs[r]))
    => IF HasBusLeg(reqs[r])
         THEN Answered(reqs[r]) /\ reqs[r].resp = PayoutResponse(10, Num(0))
         ELSE Answered(reqs[r]) => reqs[r].resp.status # 10

\* in the window, "Schienenersatzverkehr Bus 12" answered 10, "BUS" on the
\* second leg answered 10 or "ICE 123" let through to the cache
C15_Witness ==
  \E r1, r2 \in DOMAIN reqs :
    /\ reqs[r1].body = Body("all", JsObject(JBusIn))
    /\ reqs[r1].resp = PayoutResponse(10, Num(0))
    /\ \/ reqs[r2].body = Body("all", JsObject(JBus)) /\ reqs[r2].resp = PayoutResponse(10, Num(0))
       \/ reqs[r2].body = Body("all", JsObject(JIn)) /\ ReachedCache(reqs[r2])

\* request r reaches the cache in this step while the cache holds an entry
\* of its journey written at least age ago
FindsEntryOfAge(r, age) ==
  /\ reqs[r].pc = "idle"
  /\ ReachedCache(reqs'[r])
  /\ \E i \in 1..Len(cache) :
       cache[i].key = hashOf(reqs'[r].journey) /\ now - cache[i].start >= age

\* request r misses in this step: it fetches, and the entry is gone
MissesAndFetches(r) ==
  /\ reqs'[r].pc = "awaitPrediction"
  /\ fetches' = Append(fetches, [svc |-> "prediction", req |-> r])
  /\ \A i \in 1..Len(cache') : cache'[i].key # hashOf(reqs'[r].journey)

\* request r gets its probability in this step and writes it as a fresh entry
WritesFreshEntry(r) ==
  (reqs[r].pc = "awaitPrediction" /\ Answered(reqs'[r]) /\ reqs'[r].src = "fetch")
    => /\ Len(cache') > 0
       /\ cache'[1] = [key |-> hashOf(reqs'[r].journey), value |-> reqs'[r].prob, start |-> now]

\* C16 (as claimed): a cache entry is absent once its time to live of 10
\* minutes has elapsed since it was written: the first /payouts request for
\* that journey that reaches the cache after expiry misses and issues a new
\* prediction fetch, and then writes a fresh entry.
C16_ExpiredEntryMisses ==
  [][\A r \in DOMAIN reqs :
       /\ FindsEntryOfAge(r, CACHE_TTL + 1) => MissesAndFetches(r)
       /\ WritesFreshEntry(r)]_vars

\* C16 (amended): a cache entry is absent once its time to live of 10
\* minutes and the 1 second for which the cache keeps a reading of the clock
\* have elapsed since it was written: the first /payouts request for that
\* journey that reaches the cache then misses and issues a new prediction
\* fetch, and writes a fresh entry when the fetch has answered.
C16_ExpiredEntryMissesAfterResolution ==
  [][\A r \in DOMAIN reqs :
       /\ FindsEntryOfAge(r, CACHE_TTL + TTL_RESOLUTION) => MissesAndFetches(r)
       /\ WritesFreshEntry(r)]_vars

\* two requests for one journey, the second at least 10 minutes and 1 second
\* after the first: both fetched, and the entry in the cache is the second's
C16_Witness ==
  \E r1, r2 \in DOMAIN reqs :
    /\ OfPayouts(reqs[r1]) /\ Answered(reqs[r1]) /\ reqs[r1].src = "fetch"
    /\ OfPayouts(reqs[r2]) /\ Answered(reqs[r2]) /\ reqs[r2].src = "fetch"
    /\ reqs[r1].journey = reqs[r2].journey
    /\ reqs[r2].at - reqs[r1].at >= CACHE_TTL + TTL_RESOLUTION
    /\ Cardinality(PredictionFetches({r1, r2})) = 2
    /\ Len(cache) = 1
    /\ cache[1].key = hashOf(reqs[r2].journey) /\ cache[1].start >= reqs[r2].at

\* the request waits for an upstream call, in a process that will resume it
AwaitsUpstream(q) == q.pc \in {"awaitPrediction", "awaitTracking"} /\ proc.up

\* C17 (as claimed): every request to /payouts or /delay that has started
\* runs to completion or failure: once the upstream call it makes has
\* returned or failed it has received its response, and a request that still
\* waits for its upstream call keeps no other request from its response.
\* Stated on the states: a started request either waits for an upstream call
\* that the process will resume it from, or it has been answered.
C17_StartedRequestIsAnswered ==
  \A r \in DOMAIN reqs :
    (reqs[r].pc # "idle" /\ ~AwaitsUpstream(reqs[r])) => Answered(reqs[r])

\* C18 (as claimed): a failure of the notification send is not surfaced and
\* does not disturb request handling: when a send fails the process goes on,
\* no request's response changes, every request in flight can still be
\* answered, and the failed notification is not sent again.
C18_NotificationFailureUnnoticed ==
  [][\A r \in DOMAIN reqs :
       /\ (reqs[r].note = "pending" /\ reqs'[r].note = "failed")
            => /\ proc'.up
               /\ \A q \in DOMAIN reqs : reqs'[q].resp = reqs[q].resp
       /\ reqs[r].note = "failed" => reqs'[r].note = "failed"]_vars

\* the handler of q passes the journey field to decode
PassesToDecode(q) ==
  \/ OfPayouts(q) /\ q.body.type # "all"
  \/ OfDelay(q) /\ q.body.inField

\* C19 (as claimed): decode is total: for every value of the journey field
\* that a handler passes to it, a well-formed encoded string, an arbitrary
\* string, a structured object or a missing value, it returns a Journey,
\* possibly the empty one, and never raises.
C19_DecodeIsTotal ==
  \A r \in DOMAIN reqs :
    PassesToDecode(reqs[r]) =>
      /\ IF reqs[r].ep = "payouts" THEN PayoutsJourney(reqs[r].body).ok
                                   ELSE DelayJourney(reqs[r].body).ok
      /\ reqs[r].body.journey.kind # "string" => reqs[r].pc # "crashed"

\* C20: the status MISSING_DELAY (40) is never emitted: every response of
\* /payouts has a status in {0, 10, 20, 30, 100} and every response of
\* /delay a status in {0, 100}.
C20_MissingDelayNeverEmitted ==
  \A r \in DOMAIN reqs :
    Answered(reqs[r]) =>
      /\ reqs[r].ep = "payouts" => reqs[r].resp.status \in {0, 10, 20, 30, 100}
      /\ reqs[r].ep = "delay" => reqs[r].resp.status \in {0, 100}

\* a /delay request answered with a delay that is no number, where a retry
\* status would have its place, next to a /delay request answered 100
C20_Witness ==
  \E r1, r2 \in DOMAIN reqs :
    /\ OfDelay(reqs[r1]) /\ Answered(reqs[r1])
    /\ reqs[r1].resp.status = 0 /\ reqs[r1].resp.delay.nan
    /\ OfDelay(reqs[r2]) /\ Answered(reqs[r2]) /\ reqs[r2].resp.status = 100

\* the legs of a journey that has a wire form: keyed leg_1..leg_n in that
\* order, every field a string
Wireable(obj) ==
  \A i \in 1..Len(obj) :
    /\ obj[i].key = i
    /\ \A f \in FieldNames : obj[i].leg[f] # Undefined

\* the encoded string of each structured journey of the model, worked out once
EncodedJourneys ==
  [j \in {m.body.journey.obj : m \in UNION {mm.requests : mm \in Menus}} |-> encode(j)]

\* body b1 carries a structured journey and body b2 its encoded string
SameJourneyInBothForms(b1, b2) ==
  /\ b1.journey.kind = "object"
  /\ Wireable(b1.journey.obj)
  /\ b2.journey = JsString(EncodedJourneys[b1.journey.obj])

\* what the gates before the cache made of a started request: the handler
\* raised (-1), a gate answered with this status, or every gate let it pass (0)
GateOutcome(q) ==
  IF q.pc = "crashed" THEN 0 - 1
  ELSE IF q.pc = "done" /\ q.src = "none" THEN q.resp.status
  ELSE 0

\* two answered requests that got the same probability, or both none
SameProbability(q1, q2) ==
  /\ Answered(q1) /\ Answered(q2)
  /\ \/ q1.src = "failed" /\ q2.src = "failed"
     \/ q1.src \in {"cache", "fetch"} /\ q2.src \in {"cache", "fetch"} /\ q1.prob = q2.prob

TierOfAll(resp, t) == IF resp.status = 0 THEN resp.payout[t] ELSE resp.payout

LiveEntriesFor(r) ==
  {i \in 1..Len(cache) :
     cache[i].key = hashOf(reqs'[r].journey) /\ now - cache[i].start <= CACHE_TTL}

\* request w got the value of entry e from a fetch of its own, for the
\* journey of request r
FetchedValueOf(w, e, r) ==
  /\ Answered(reqs[w]) /\ reqs[w].src = "fetch"
  /\ reqs[w].journey = reqs'[r].journey
  /\ reqs[w].prob = e.value

\* C22: every successfully fetched probability is cached whatever its value,
\* 0 and a value above the cap of 40 included: the request that fetched it
\* writes it to the cache, and a later request with the identical journey
\* that reaches the cache within the time to live is served from the cache,
\* fetches nothing and receives the status the fetching request received
\* (30 again if that one was rejected by the cap).
C22_FetchedProbabilityIsCached ==
  [][\A r \in DOMAIN reqs :
       /\ WritesFreshEntry(r)
       /\ (reqs[r].pc = "idle" /\ ReachedCache(reqs'[r]) /\ LiveEntriesFor(r) # {})
            => /\ Answered(reqs'[r]) /\ reqs'[r].src = "cache"
               /\ fetches' = fetches
               /\ \A i \in LiveEntriesFor(r) :
                    /\ reqs'[r].prob = cache[i].value
                    /\ \A w \in DOMAIN reqs :
                         FetchedValueOf(w, cache[i], r)
                           => reqs'[r].resp.status = reqs[w].resp.status]_vars

\* a probability of 0 fetched and answered 0, and the same journey, asked
\* for again when the entry's time to live is just not over, answered 0 from
\* the cache: one fetch for the two
C22_Witness ==
  \E r1, r2 \in DOMAIN reqs :
    /\ OfPayouts(reqs[r1]) /\ Answered(reqs[r1]) /\ reqs[r1].src = "fetch"
    /\ reqs[r1].prob = Num(0) /\ reqs[r1].resp.status = 0
    /\ OfPayouts(reqs[r2]) /\ Answered(reqs[r2]) /\ reqs[r2].src = "cache"
    /\ reqs[r2].journey = reqs[r1].journey
    /\ reqs[r2].at = reqs[r1].at + CACHE_TTL
    /\ reqs[r2].prob = Num(0) /\ reqs[r2].resp.status = 0
    /\ Cardinality(PredictionFetches({r1, r2})) = 1

\* requestProbability raises for request r in this step: right away, for a
\* journey it cannot read, or when its fetch has failed
ProbabilityFails(r) ==
  /\ reqs[r].pc \in {"idle", "awaitPrediction"}
  /\ OfPayouts(reqs'[r])
  /\ reqs'[r].src = "failed"

\* the cache holds no entry of request r's journey
NoEntryFor(r, c) == \A i \in 1..Len(c) : c[i].key # hashOf(reqs'[r].journey)

\* a request for the journey of request r has failed before
FailedBefore(r) ==
  \E f \in DOMAIN reqs :
    /\ OfPayouts(reqs[f]) /\ Answered(reqs[f]) /\ reqs[f].src = "failed"
    /\ reqs[f].journey = reqs'[r].journey

\* every entry of the cache was written by a request whose fetch succeeded
EntriesWereFetched ==
  \A i \in 1..Len(cache) :
    \E w \in DOMAIN reqs :
      /\ OfPayouts(reqs[w]) /\ Answered(reqs[w]) /\ reqs[w].src = "fetch"
      /\ cache[i].key = hashOf(reqs[w].journey)
      /\ cache[i].value = reqs[w].prob

\* C23: a failed probability fetch leaves the cache unchanged: when
\* requestProbability raises (the service unreachable, a response other than
\* 200, or a journey it cannot read), the request writes no entry and is
\* answered {status: 100, payout: 0}, the cache holding what it held (less a
\* stale entry of that journey, if the lookup found one); and the next request
\* with the same journey, no other request having written the entry, is not
\* served from the cache: requestProbability is called again, and fetches
\* again when it can read the journey.
C23_FailedFetchLeavesCache ==
  /\ []EntriesWereFetched
  /\ [][\A r \in DOMAIN reqs :
          /\ ProbabilityFails(r)
               => /\ Answered(reqs'[r])
                  /\ reqs'[r].resp = PayoutResponse(100, Num(0))
                  /\ cache' = IF reqs[r].pc = "idle"
                                THEN CacheWithout(cache, hashOf(reqs'[r].journey))
                                ELSE cache
          /\ (/\ reqs[r].pc = "idle" /\ ReachedCache(reqs'[r])
              /\ FailedBefore(r) /\ NoEntryFor(r, cache))
               => /\ reqs'[r].src # "cache"
                  /\ RequestCanBeBuilt(reqs'[r].journey) => MissesAndFetches(r)]_vars

\* a request answered 100 after the service answered with a status other
\* than 200, the cache still empty, and a later request for the same journey
\* that has missed and waits for a fetch of its own
C23_Witness ==
  \E r1, r2 \in DOMAIN reqs :
    /\ OfPayouts(reqs[r1]) /\ reqs[r1].src = "failed"
    /\ RequestCanBeBuilt(reqs[r1].journey)
    /\ reqs[r1].resp = PayoutResponse(100, Num(0))
    /\ reqs[r2].pc = "awaitPrediction"
    /\ reqs[r2].journey = reqs[r1].journey
    /\ reqs[r2].at > reqs[r1].at
    /\ cache = <<>>
    /\ Cardinality(PredictionFetches({r1})) = 1
    /\ Cardinality(PredictionFetches({r2})) = 1

\* a payout read from a row 0..40 of the matrix, and so defined
IsMatrixEntry(payout) == payout.defined /\ payout.row \in 0..40

\* C24 (as claimed): every /payouts response with status OK (0) carries a
\* payout defined by the matrix: whatever the prediction service answers
\* with status 200 (a delayProbability above 1, negative or missing), the
\* row read for an OK response is an integer in 0..40 and the payout, each of
\* the three for type 'all', is an entry of the matrix and never undefined;
\* and every value written to the cache is a percentage in [0, 100].
C24_OkPayoutIsMatrixEntry ==
  /\ \A r \in DOMAIN reqs :
       (OfPayouts(reqs[r]) /\ Answered(reqs[r]) /\ reqs[r].resp.status = 0) =>
         IF reqs[r].body.type = "all"
           THEN /\ IsMatrixEntry(reqs[r].resp.payout.small)
                /\ IsMatrixEntry(reqs[r].resp.payout.medium)
                /\ IsMatrixEntry(reqs[r].resp.payout.large)
           ELSE IsMatrixEntry(reqs[r].resp.payout)
  /\ \A i \in 1..Len(cache) :
       ~cache[i].value.nan /\ cache[i].value.v \in 0..(100 * 100)

HasProbability(q) == OfPayouts(q) /\ Answered(q) /\ q.src \in {"cache", "fetch"}

\* C5: the cap is applied to the unrounded probability: a request whose
\* fetched or cached probability is above 40 (40.01 included) is answered
\* {status: 30, payout: 0}, one whose probability is at most 40 (40.00
\* included) goes on to payout resolution.
C5_CapOnUnroundedProbability ==
  \A r \in DOMAIN reqs :
    (HasProbability(reqs[r]) /\ ~reqs[r].prob.nan) =>
      IF reqs[r].prob.v > 4000
        THEN reqs[r].resp = PayoutResponse(30, Num(0))
        ELSE reqs[r].resp.status = 0

\* 40.00 accepted and 40.01 rejected
C5_Witness ==
  \E r1, r2 \in DOMAIN reqs :
    /\ HasProbability(reqs[r1]) /\ reqs[r1].prob = Num(4000) /\ reqs[r1].resp.status = 0
    /\ HasProbability(reqs[r2]) /\ reqs[r2].prob = Num(4001) /\ reqs[r2].resp.status = 30

\* C6: for an accepted probability p <= 40, fetched or cached, the payout of
\* the OK response is the table read at row ceil(p) of the requested tier,
\* and for type 'all' the three reads of that same row.
C6_PayoutIsRowCeil ==
  \A r \in DOMAIN reqs :
    (HasProbability(reqs[r]) /\ ~reqs[r].prob.nan /\ reqs[r].prob.v <= 4000) =>
      LET row == Num((reqs[r].prob.v + 99) \div 100)
          type == reqs[r].body.type
      IN  /\ reqs[r].resp.status = 0
          /\ reqs[r].resp.payout =
               IF type = "all"
                 THEN [small |-> PAYOUTS("small", row), medium |-> PAYOUTS("medium", row),
                       large |-> PAYOUTS("large", row)]
                 ELSE PAYOUTS(type, row)

\* 12.3 fetched reads row 13 of one tier, and read from the cache row 13 of all
C6_Witness ==
  \E r1, r2 \in DOMAIN reqs :
    /\ HasProbability(reqs[r1]) /\ reqs[r1].src = "fetch" /\ reqs[r1].prob = Num(1230)
    /\ reqs[r1].resp.payout = [defined |-> TRUE, tier |-> "medium", row |-> 13]
    /\ HasProbability(reqs[r2]) /\ reqs[r2].src = "cache" /\ reqs[r2].body.type = "all"
    /\ reqs[r2].resp.payout.large = [defined |-> TRUE, tier |-> "large", row |-> 13]

\* C8 (as claimed): every response of /delay carries a delay >= 0.
C8_DelayNeverNegative ==
  \A r \in DOMAIN reqs :
    (OfDelay(reqs[r]) /\ Answered(reqs[r])) =>
      ~reqs[r].resp.delay.nan /\ reqs[r].resp.delay.v >= 0

====
